---- MODULE Spec2Model ----
(***************************************************************************)
(* Model of the useAutonomousAI hook (src/src/hooks/useAutonomousAI.ts):   *)
(* the gating effect, the delayed decision callback with its risk and      *)
(* backtest enrichment, the toast selection and calculateMarketNoise.      *)
(*                                                                         *)
(* JavaScript values are modelled as follows.  An object is a record (a    *)
(* function on field names), an optional field is a field that is or is    *)
(* not in the record's DOMAIN, null/undefined is the record Null.  Scores  *)
(* are integers in tenths (0.3 is ConflictGap = 3).  The number returned   *)
(* by calculateMarketNoise is an exact fraction [num, den] in lowest       *)
(* terms.  A template string is the record of the values it interpolates.  *)
(***************************************************************************)
EXTENDS Integers, Sequences, FiniteSets, TLC

VARIABLES
    detailedResults,          \* hook argument, as of the latest render
    enhancedAnalysisResult,   \* hook argument, as of the latest render
    fastAnalysisResults,      \* hook argument, as of the latest render
    selectedTimeframe,        \* useAnalyzer()
    marketType,               \* useAnalyzer()
    currentRisk,              \* useAdvancedTrading(), as of the latest render
    positionSizing,           \* useAdvancedTrading(), as of the latest render
    aiDecision,               \* useState<AutonomousDecision | null>(null)
    isProcessing,             \* useState(false)
    cycles,                   \* one record per setTimeout callback scheduled
    updates,                  \* number of effect runs so far
    qualified,                \* number of effect runs that passed the gate
    mounted,                  \* the component that owns the hook is mounted
    arg,                      \* input of the pure function under check
    ret                       \* its result

vars == <<detailedResults, enhancedAnalysisResult, fastAnalysisResults,
          selectedTimeframe, marketType, currentRisk, positionSizing,
          aiDecision, isProcessing, cycles, updates, qualified, mounted, arg, ret>>

hookVars == <<detailedResults, enhancedAnalysisResult, fastAnalysisResults,
              selectedTimeframe, marketType, currentRisk, positionSizing,
              aiDecision, isProcessing, cycles, updates, qualified, mounted>>

----------------------------------------------------------------------------
(* Bounds of the model *)

MaxUpdates == 2
MaxFastLen == 6
MaxKeys == 2
MaxScore == 3
MaxLevel == 4

(* Constants of the program *)

NeutralNoise == 50
DefaultVolatility == 50
DefaultTrendStrength == 50
ConflictGap == 3
NoiseCap == 100
BacktestThreshold == 5
EntryPrice == 100
BuyStopLoss == 98
SellStopLoss == 102
BuyTakeProfit == 104
SellTakeProfit == 96
SimulatedConfluences == 2
ActionToastDuration == 6000
WaitToastDuration == 5000

----------------------------------------------------------------------------
(* JavaScript values *)

Null == [null |-> TRUE]

Has(obj, f) == obj # Null /\ f \in DOMAIN obj

Abs(x) == IF x < 0 THEN -x ELSE x

Max(a, b) == IF a >= b THEN a ELSE b

RECURSIVE Gcd(_, _)
Gcd(a, b) == IF b = 0 THEN a ELSE Gcd(b, a % b)

\* the number n/d, d > 0, in lowest terms
Frac(n, d) == LET g == Max(1, Gcd(n, d)) IN [num |-> n \div g, den |-> d \div g]

\* Math.min(cap, q)
MinFrac(cap, q) == IF q.num > cap * q.den THEN Frac(cap, 1) ELSE q

\* x || dflt on a number-valued optional field: absent and 0 are both falsy
OrDefault(obj, f, dflt) == IF Has(obj, f) /\ obj[f] # 0 THEN obj[f] ELSE dflt

----------------------------------------------------------------------------
(* calculateMarketNoise *)

FoundPatterns(results) == {k \in DOMAIN results : results[k].found}

IsConflictingInclusive(r) ==
    Abs(OrDefault(r, "buyScore", 0) - OrDefault(r, "sellScore", 0)) <= ConflictGap

IsConflicting(r) ==
    Abs(OrDefault(r, "buyScore", 0) - OrDefault(r, "sellScore", 0)) < ConflictGap

calculateMarketNoise(results) ==
    IF results = Null
    THEN Frac(NeutralNoise, 1)
    ELSE LET patterns == FoundPatterns(results)
             conflicting == Cardinality({k \in patterns : IsConflicting(results[k])})
         IN  MinFrac(NoiseCap, Frac(conflicting * 100, Max(1, Cardinality(patterns))))

----------------------------------------------------------------------------
(* The effect: gate and factors *)

GateWithoutEmptyCheck(detailed, enhanced) ==
    /\ ~(detailed = Null)
    /\ ~(enhanced = Null \/ ~Has(enhanced, "microPatterns"))

\* both early returns of the effect are skipped
Gate(detailed, enhanced) ==
    /\ ~(detailed = Null \/ DOMAIN detailed = {})
    /\ ~(enhanced = Null \/ ~Has(enhanced, "microPatterns"))

EmptyObject == [f \in {} |-> 0]

Field(obj, f) == IF Has(obj, f) THEN obj[f] ELSE Null

BuildFactors(detailed, enhanced) ==
    [micro_patterns |-> IF Has(enhanced, "microPatterns")
                        THEN enhanced.microPatterns ELSE <<>>,
     visual_analysis |-> IF Has(enhanced, "visualAnalysis")
                         THEN enhanced.visualAnalysis ELSE EmptyObject,
     market_conditions |->
        [volatility |-> OrDefault(Field(Field(enhanced, "visualAnalysis"), "priceAction"),
                                  "volatility", DefaultVolatility),
         noise |-> calculateMarketNoise(detailed),
         trend_strength |-> OrDefault(Field(enhanced, "visualAnalysis"),
                                      "trendStrength", DefaultTrendStrength)],
     timing_analysis |-> IF Has(enhanced, "timing") THEN enhanced.timing ELSE EmptyObject,
     technical_indicators |-> detailed]

\* the closure of the setTimeout callback, with the record of what it did
NewCycle(factors, timeframe, market, fast, risk, sizing) ==
    [pc |-> "scheduled",
     factors |-> factors,
     selectedTimeframe |-> timeframe,
     marketType |-> market,
     fastAnalysisResults |-> fast,
     currentRisk |-> risk,
     positionSizing |-> sizing,
     decision |-> Null,
     before |-> Null,
     decisionCalls |-> <<>>,
     riskCalls |-> <<>>,
     backtestCalls |-> <<>>,
     toasts |-> <<>>,
     processingAtToast |-> Null,
     raised |-> "none"]

ScheduleCancelling(cs, cy) ==
    Append([i \in 1..Len(cs) |->
               IF cs[i].pc = "scheduled" THEN [cs[i] EXCEPT !.pc = "cancelled"]
               ELSE cs[i]],
           cy)

\* setTimeout(callback, 1500): the timer is added, no timer is cleared
Schedule(cs, cy) == Append(cs, cy)

----------------------------------------------------------------------------
(* The toasts *)

ActionText(decision) ==
    IF decision.action = "BUY" THEN "COMPRAR"
    ELSE IF decision.action = "SELL" THEN "VENDER" ELSE "AGUARDAR"

Emoji(decision) ==
    IF decision.action = "BUY" THEN "chart_up"
    ELSE IF decision.action = "SELL" THEN "chart_down" ELSE "hourglass"

GradeEmoji(decision) ==
    LET g == decision.professional_analysis.market_grade
    IN  IF g = "A" THEN "trophy" ELSE IF g = "B" THEN "silver"
        ELSE IF g = "C" THEN "bronze" ELSE "chart"

RiskInfo(risk) ==
    IF risk # Null THEN [text |-> " | Risco: ", value |-> risk.totalRisk]
    ELSE [text |-> ""]

PositionInfo(sizing) ==
    IF sizing # Null THEN [text |-> " | Size: ", value |-> sizing.recommendedSize]
    ELSE [text |-> ""]

SeverityByConfidence(decision) ==
    IF decision.action # "WAIT" \/ decision.confidence >= 100
    THEN IF decision.timing.enter_now THEN "success" ELSE "info"
    ELSE "warning"

Severity(decision) ==
    IF decision.action # "WAIT"
    THEN IF decision.timing.enter_now THEN "success" ELSE "info"
    ELSE "warning"

Present(decision, risk, sizing) ==
    LET grade == decision.professional_analysis.market_grade
    IN  IF Severity(decision) = "success"
        THEN [severity |-> "success",
              title |-> [emoji |-> Emoji(decision), action |-> ActionText(decision),
                         when |-> "AGORA!", gradeEmoji |-> GradeEmoji(decision),
                         grade |-> grade],
              duration |-> ActionToastDuration,
              description |-> [confidence |-> decision.confidence,
                               success |-> decision.expected_success_rate,
                               riskInfo |-> RiskInfo(risk),
                               positionInfo |-> PositionInfo(sizing)]]
        ELSE IF Severity(decision) = "info"
        THEN [severity |-> "info",
              title |-> [emoji |-> Emoji(decision), action |-> ActionText(decision),
                         wait_seconds |-> decision.timing.wait_seconds,
                         gradeEmoji |-> GradeEmoji(decision), grade |-> grade],
              duration |-> ActionToastDuration,
              description |-> [confidence |-> decision.confidence,
                               text |-> "Timing otimo em breve",
                               riskInfo |-> RiskInfo(risk)]]
        ELSE [severity |-> "warning",
              title |-> [action |-> "AGUARDAR", gradeEmoji |-> GradeEmoji(decision),
                         grade |-> grade],
              duration |-> WaitToastDuration,
              description |-> [confidence |-> decision.confidence,
                               text |-> "Condicoes nao favoraveis"]]

ErrorToast == [severity |-> "error", title |-> "Erro na analise autonoma da IA"]

----------------------------------------------------------------------------
(* The setTimeout callback *)

Raise == [raise |-> TRUE]

\* setAiDecision(decision)
SetAiDecision(prev, decision) == decision

\* the risk assessment is logged; the stored decision is the one before the call
AfterRiskEvaluation(stored, assessment) == stored

AfterCatchCleared(stored) == Null

\* what the catch block leaves in aiDecision
AfterCatch(stored) == stored

ShouldEvaluateRiskBuyOnly(decision) == decision.action = "BUY"

ShouldEvaluateRisk(decision) == decision.action # "WAIT"

RiskRequest(decision, cy) ==
    [action |-> decision.action,
     confidence |-> decision.confidence,
     expected_success_rate |-> decision.expected_success_rate,
     timing |-> decision.timing,
     professional_analysis |-> decision.professional_analysis,
     timeframe |-> cy.selectedTimeframe,
     entry_price |-> EntryPrice,
     stop_loss |-> IF decision.action = "BUY" THEN BuyStopLoss ELSE SellStopLoss,
     take_profit |-> IF decision.action = "BUY" THEN BuyTakeProfit ELSE SellTakeProfit,
     volatility |-> cy.factors.market_conditions.volatility,
     confluences |-> decision.professional_analysis.confluences]

ShouldBacktestFromFive(fast) == Len(fast) >= BacktestThreshold

ShouldBacktest(fast) == Len(fast) > BacktestThreshold

BacktestInput(result, timeframe) ==
    [action |-> IF result.direction = "up" THEN "BUY"
                ELSE IF result.direction = "down" THEN "SELL" ELSE "WAIT",
     confidence |-> result.confidence,
     confluences |-> SimulatedConfluences,
     timeframe |-> timeframe]

BacktestInputs(fast, timeframe) ==
    [i \in 1..Len(fast) |-> BacktestInput(fast[i], timeframe)]

CatchErrorStaysBusy(st, kind) ==
    [aiDecision |-> AfterCatch(st.aiDecision),
     isProcessing |-> st.isProcessing,
     cycle |-> [st.cycle EXCEPT !.pc = "done", !.raised = kind,
                                !.processingAtToast = [value |-> st.isProcessing],
                                !.toasts = Append(@, ErrorToast)]]

\* catch (error): setIsProcessing(false); toast.error(...)
CatchError(st, kind) ==
    [aiDecision |-> AfterCatch(st.aiDecision),
     isProcessing |-> FALSE,
     cycle |-> [st.cycle EXCEPT !.pc = "done", !.raised = kind,
                                !.processingAtToast = [value |-> FALSE],
                                !.toasts = Append(@, ErrorToast)]]

FinishCycleLiveRisk(st) ==
    [aiDecision |-> st.aiDecision,
     isProcessing |-> FALSE,
     cycle |-> [st.cycle EXCEPT
                  !.pc = "done",
                  !.processingAtToast = [value |-> FALSE],
                  !.toasts = Append(@, Present(st.cycle.decision, currentRisk,
                                               positionSizing))]]

FinishCycleThenError(st) ==
    [aiDecision |-> st.aiDecision,
     isProcessing |-> FALSE,
     cycle |-> [st.cycle EXCEPT
                  !.pc = "done",
                  !.processingAtToast = [value |-> FALSE],
                  !.toasts = Append(Append(@, Present(st.cycle.decision,
                                                      st.cycle.currentRisk,
                                                      st.cycle.positionSizing)),
                                    ErrorToast)]]

FinishCycleStoring(st) ==
    [aiDecision |-> st.cycle.decision,
     isProcessing |-> FALSE,
     cycle |-> [st.cycle EXCEPT
                  !.pc = "done",
                  !.processingAtToast = [value |-> FALSE],
                  !.toasts = Append(@, Present(st.cycle.decision, st.cycle.currentRisk,
                                               st.cycle.positionSizing))]]

\* setIsProcessing(false), then the toast of the decision: processingAtToast is
\* the value the flag was last set to when the toast is delivered
FinishCycle(st) ==
    [aiDecision |-> st.aiDecision,
     isProcessing |-> FALSE,
     cycle |-> [st.cycle EXCEPT
                  !.pc = "done",
                  !.processingAtToast = [value |-> FALSE],
                  !.toasts = Append(@, Present(st.cycle.decision, st.cycle.currentRisk,
                                               st.cycle.positionSizing))]]

\* const decision = makeAutonomousDecision(...); setAiDecision(decision)
DecisionStep(st, outcome) ==
    LET called == [st.cycle EXCEPT
                     !.before = st.aiDecision,
                     !.decisionCalls = Append(@, [factors |-> st.cycle.factors,
                                                  timeframe |-> st.cycle.selectedTimeframe,
                                                  marketType |-> st.cycle.marketType])]
    IN  IF outcome = Raise
        THEN CatchError([st EXCEPT !.cycle = called], "decision")
        ELSE [st EXCEPT !.aiDecision = SetAiDecision(st.aiDecision, outcome),
                        !.cycle = [called EXCEPT !.decision = outcome]]

\* if (decision.action !== "WAIT") evaluateSignalRisk(...)
RiskStep(st, outcome) ==
    IF st.cycle.pc = "done" \/ ~ShouldEvaluateRisk(st.cycle.decision)
    THEN st
    ELSE LET after == IF outcome = "throw" THEN st.aiDecision
                      ELSE AfterRiskEvaluation(st.aiDecision, [riskScore |-> 1])
             called == [st.cycle EXCEPT
                          !.riskCalls = Append(@, [request |-> RiskRequest(st.cycle.decision, st.cycle),
                                                   storedBefore |-> st.aiDecision,
                                                   storedAfter |-> after])]
         IN  IF outcome = "throw"
             THEN CatchError([st EXCEPT !.cycle = called], "risk")
             ELSE [st EXCEPT !.aiDecision = after, !.cycle = called]

BacktestStepNotAwaited(st, outcome) ==
    IF st.cycle.pc = "done"
    THEN st
    ELSE IF ~ShouldBacktest(st.cycle.fastAnalysisResults)
    THEN FinishCycle(st)
    ELSE LET called == [st.cycle EXCEPT
                          !.backtestCalls =
                              Append(@, BacktestInputs(st.cycle.fastAnalysisResults,
                                                       st.cycle.selectedTimeframe))]
         IN  IF outcome = "throw"
             THEN CatchError([st EXCEPT !.cycle = called], "backtest")
             ELSE FinishCycle([st EXCEPT !.cycle = called])

\* if (fastAnalysisResults.length > 5) await performBacktest(...)
BacktestStep(st, outcome) ==
    IF st.cycle.pc = "done"
    THEN st
    ELSE IF ~ShouldBacktest(st.cycle.fastAnalysisResults)
    THEN FinishCycle(st)
    ELSE LET called == [st.cycle EXCEPT
                          !.backtestCalls =
                              Append(@, BacktestInputs(st.cycle.fastAnalysisResults,
                                                       st.cycle.selectedTimeframe))]
         IN  IF outcome = "throw"
             THEN CatchError([st EXCEPT !.cycle = called], "backtest")
             ELSE [st EXCEPT !.cycle = [called EXCEPT !.pc = "awaiting"]]

\* the callback up to its end or to the await
RunCallback(cy, stored, processing, decisionOutcome, riskOutcome, backtestOutcome) ==
    BacktestStep(
        RiskStep(
            DecisionStep([aiDecision |-> stored, isProcessing |-> processing, cycle |-> cy],
                         decisionOutcome),
            riskOutcome),
        backtestOutcome)

----------------------------------------------------------------------------
(* The values the environment supplies *)

Keys == {"rsi", "macd", "bollinger"}

KeySets == {K \in SUBSET Keys : Cardinality(K) <= MaxKeys}

\* a score of -1 stands for a field that is not there
PatternResult(found, buy, sell) ==
    [f \in {"found"} \cup (IF buy >= 0 THEN {"buyScore"} ELSE {})
                     \cup (IF sell >= 0 THEN {"sellScore"} ELSE {}) |->
        IF f = "found" THEN found ELSE IF f = "buyScore" THEN buy ELSE sell]

PatternResults ==
    {PatternResult(found, buy, sell) :
        found \in BOOLEAN, buy \in -1..MaxScore, sell \in -1..MaxScore}

\* every mapping of at most MaxKeys keys, and the absent one
Mappings == UNION {[K -> PatternResults] : K \in KeySets} \cup {Null}

\* the hook's detailedResults: absent, empty, or one found pattern
DetailedInputs ==
    {Null, EmptyObject, [rsi |-> PatternResult(TRUE, MaxScore, MaxScore - 1)]}

\* the hook's enhancedAnalysisResult: absent, without microPatterns, complete
EnhancedInputs ==
    {Null,
     [visualAnalysis |-> [trendStrength |-> 70]],
     [microPatterns |-> <<"doji">>,
      visualAnalysis |-> [priceAction |-> [volatility |-> 30], trendStrength |-> 70],
      timing |-> [optimal |-> TRUE]]}

FastResult(i) ==
    [direction |-> IF i % 3 = 1 THEN "up" ELSE IF i % 3 = 2 THEN "down" ELSE "flat",
     confidence |-> 50 + i]

FastInputs == {[i \in 1..n |-> FastResult(i)] : n \in BacktestThreshold..MaxFastLen}

Timeframes == {"1m"}

MarketTypes == {"regular"}

RiskStates == {Null, [totalRisk |-> 2]}

SizingStates == {Null, [recommendedSize |-> 10]}

Actions == {"BUY", "SELL", "WAIT"}

Decision(action, confidence, enterNow, grade) ==
    [action |-> action,
     confidence |-> confidence,
     expected_success_rate |-> 70,
     timing |-> [enter_now |-> enterNow, wait_seconds |-> 30],
     professional_analysis |-> [market_grade |-> grade, confluences |-> 3]]

\* what makeAutonomousDecision may return
Decisions == {Decision(a, 75, e, "A") : a \in Actions, e \in BOOLEAN}

ConfidenceLevels == {25 * k : k \in 0..MaxLevel}

Grades == {"A", "B", "C", "D"}

\* the decisions and the risk context the toast selection is applied to
PresentInputs ==
    {[decision |-> Decision(a, c, e, g), risk |-> risk, sizing |-> sizing] :
        a \in Actions, c \in ConfidenceLevels, e \in BOOLEAN, g \in Grades,
        risk \in RiskStates, sizing \in SizingStates}

----------------------------------------------------------------------------
(* The hook as a state machine *)

\* the hook after its first render, before its first effect
InitHook ==
    /\ detailedResults = Null
    /\ enhancedAnalysisResult = Null
    /\ fastAnalysisResults = <<>>
    /\ selectedTimeframe \in Timeframes
    /\ marketType \in MarketTypes
    /\ currentRisk = Null
    /\ positionSizing = Null
    /\ aiDecision = Null
    /\ isProcessing = FALSE
    /\ cycles = <<>>
    /\ updates = 0
    /\ qualified = 0
    /\ mounted = TRUE

Init == InitHook /\ arg = Null /\ ret = Null

\* a render with new dependencies: the effect runs
Update(detailed, enhanced, fast, timeframe, market) ==
    /\ mounted
    /\ updates < MaxUpdates
    /\ updates' = updates + 1
    /\ detailedResults' = detailed
    /\ enhancedAnalysisResult' = enhanced
    /\ fastAnalysisResults' = fast
    /\ selectedTimeframe' = timeframe
    /\ marketType' = market
    /\ IF Gate(detailed, enhanced)
       THEN /\ isProcessing' = TRUE
            /\ cycles' = Schedule(cycles,
                                  NewCycle(BuildFactors(detailed, enhanced), timeframe,
                                           market, fast, currentRisk, positionSizing))
            /\ qualified' = qualified + 1
       ELSE UNCHANGED <<isProcessing, cycles, qualified>>
    /\ UNCHANGED <<currentRisk, positionSizing, aiDecision, mounted, arg, ret>>

\* a render in which useAdvancedTrading returns new state: no dependency of the
\* effect has changed
AdvancedChange(risk, sizing) ==
    /\ mounted
    /\ <<risk, sizing>> # <<currentRisk, positionSizing>>
    /\ currentRisk' = risk
    /\ positionSizing' = sizing
    /\ UNCHANGED <<detailedResults, enhancedAnalysisResult, fastAnalysisResults,
                   selectedTimeframe, marketType, aiDecision, isProcessing, cycles,
                   updates, qualified, mounted, arg, ret>>

NextTimerAnyOrder(c) ==
    /\ c \in 1..Len(cycles)
    /\ cycles[c].pc = "scheduled"

\* the timers have the same delay: the oldest pending one fires first
NextTimer(c) ==
    /\ c \in 1..Len(cycles)
    /\ cycles[c].pc = "scheduled"
    /\ \A b \in 1..(c - 1) : cycles[b].pc # "scheduled"

\* what a run of the callback leaves: the calls and toasts it made, and its
\* state updates, which React drops once the component is unmounted
Commit(c, st) ==
    /\ IF mounted
       THEN aiDecision' = st.aiDecision /\ isProcessing' = st.isProcessing
       ELSE UNCHANGED <<aiDecision, isProcessing>>
    /\ cycles' = [cycles EXCEPT ![c] = st.cycle]
    /\ UNCHANGED <<detailedResults, enhancedAnalysisResult, fastAnalysisResults,
                   selectedTimeframe, marketType, currentRisk, positionSizing,
                   updates, qualified, mounted, arg, ret>>

\* the timer of cycle c fires
Fire(c) ==
    /\ NextTimer(c)
    /\ \E d \in Decisions \cup {Raise}, r \in {"return", "throw"}, b \in {"pending", "throw"} :
          Commit(c, RunCallback(cycles[c], aiDecision, isProcessing, d, r, b))

\* the promise of performBacktest is fulfilled: the callback resumes
Resolve(c) ==
    /\ c \in 1..Len(cycles)
    /\ cycles[c].pc = "awaiting"
    /\ Commit(c, FinishCycle([aiDecision |-> aiDecision, isProcessing |-> isProcessing,
                              cycle |-> cycles[c]]))

\* the promise of performBacktest is rejected: the callback resumes in the catch
Reject(c) ==
    /\ c \in 1..Len(cycles)
    /\ cycles[c].pc = "awaiting"
    /\ Commit(c, CatchError([aiDecision |-> aiDecision, isProcessing |-> isProcessing,
                             cycle |-> cycles[c]], "backtest"))

Next ==
    \/ \E detailed \in DetailedInputs, enhanced \in EnhancedInputs, fast \in FastInputs,
          timeframe \in Timeframes, market \in MarketTypes :
          Update(detailed, enhanced, fast, timeframe, market)
    \/ \E risk \in RiskStates, sizing \in SizingStates : AdvancedChange(risk, sizing)
    \/ \E c \in 1..MaxUpdates : Fire(c)
    \/ \E c \in 1..MaxUpdates : Resolve(c)
    \/ \E c \in 1..MaxUpdates : Reject(c)

Spec == Init /\ [][Next]_vars

\* the owning component is unmounted: the effect has no cleanup, so nothing
\* that is pending is touched
Unmount ==
    /\ mounted
    /\ mounted' = FALSE
    /\ UNCHANGED <<detailedResults, enhancedAnalysisResult, fastAnalysisResults,
                   selectedTimeframe, marketType, currentRisk, positionSizing,
                   aiDecision, isProcessing, cycles, updates, qualified, arg, ret>>

NextOrUnmount == Next \/ Unmount

\* the hook with the teardown of its owner
TeardownSpec == Init /\ [][NextOrUnmount]_vars

\* the values of AnalyzerContext that a cycle can see replaced by others
Contexts ==
    {[selectedTimeframe |-> "1m", marketType |-> "regular"],
     [selectedTimeframe |-> "5m", marketType |-> "otc"]}

NextWithContext ==
    \/ \E detailed \in DetailedInputs, enhanced \in EnhancedInputs, fast \in FastInputs,
          context \in Contexts :
          Update(detailed, enhanced, fast, context.selectedTimeframe, context.marketType)
    \/ \E risk \in RiskStates, sizing \in SizingStates : AdvancedChange(risk, sizing)
    \/ \E c \in 1..MaxUpdates : Fire(c)
    \/ \E c \in 1..MaxUpdates : Resolve(c)
    \/ \E c \in 1..MaxUpdates : Reject(c)

\* the hook under a context whose timeframe and market type change
ContextSpec == Init /\ [][NextWithContext]_vars

\* a timer that is due fires; nothing else is promised
FairSpec == Spec /\ \A c \in 1..MaxUpdates : WF_vars(Fire(c))

\* a timer that is due fires, and every promise of performBacktest is settled
SettlingSpec ==
    /\ Spec
    /\ WF_vars(\E c \in 1..MaxUpdates : Fire(c))
    /\ WF_vars(\E c \in 1..MaxUpdates : Resolve(c) \/ Reject(c))

----------------------------------------------------------------------------
(* The pure functions on their own: the input is drawn, the function applied *)

InitNoise == InitHook /\ arg \in Mappings /\ ret = Null

CallNoise ==
    /\ ret = Null
    /\ ret' = calculateMarketNoise(arg)
    /\ UNCHANGED <<hookVars, arg>>

SpecNoise == InitNoise /\ [][CallNoise]_vars

InitPresent == InitHook /\ arg \in PresentInputs /\ ret = Null

CallPresent ==
    /\ ret = Null
    /\ ret' = Present(arg.decision, arg.risk, arg.sizing)
    /\ UNCHANGED <<hookVars, arg>>

SpecPresent == InitPresent /\ [][CallPresent]_vars

\* an object with the optional field f: a value of -1 stands for a missing field
Optional(f, v) == IF v >= 0 THEN [g \in {f} |-> v] ELSE EmptyObject

Merge(a, b) == [g \in DOMAIN a \cup DOMAIN b |-> IF g \in DOMAIN a THEN a[g] ELSE b[g]]

\* the readings a payload can carry: 0, 25, ..., and -1 for a missing field
Readings == {-1} \cup ConfidenceLevels

\* visualAnalysis with or without priceAction, volatility and trendStrength
VisualAnalyses ==
    {Merge(Optional("trendStrength", t), pa) :
        t \in Readings,
        pa \in {EmptyObject} \cup {[priceAction |-> Optional("volatility", v)] : v \in Readings}}

\* enhanced payloads: absent, with or without microPatterns and visualAnalysis
EnhancedPayloads ==
    {Null} \cup
    {Merge(mp, va) :
        mp \in {EmptyObject, [microPatterns |-> <<"doji">>]},
        va \in {EmptyObject} \cup {[visualAnalysis |-> x] : x \in VisualAnalyses}}

FactorInputs == [detailed : DetailedInputs, enhanced : EnhancedPayloads]

InitFactors == InitHook /\ arg \in FactorInputs /\ ret = Null

CallFactors ==
    /\ ret = Null
    /\ ret' = BuildFactors(arg.detailed, arg.enhanced)
    /\ UNCHANGED <<hookVars, arg>>

SpecFactors == InitFactors /\ [][CallFactors]_vars

----------------------------------------------------------------------------
(* Claims about calculateMarketNoise, under SpecNoise *)

\* C7: the noise is exactly 50 for every mapping that has no entry with
\* found = true, the empty mapping and the absent input included.
NoFoundGivesFifty ==
    (ret # Null /\ (arg = Null \/ \A k \in DOMAIN arg : ~arg[k].found))
        => ret = [num |-> 50, den |-> 1]

\* C8: with at least one found entry the noise is 100 * conflicting / found,
\* where an entry conflicts when |buyScore - sellScore| < 0.3 and a missing
\* score counts as 0; it lies in [0,100], is 0 when no found entry conflicts
\* and 100 when all do, and the entries with found = false do not matter.
NoiseIsConflictingShare ==
    (ret # Null /\ arg # Null /\ \E k \in DOMAIN arg : arg[k].found) =>
        LET found == {k \in DOMAIN arg : arg[k].found}
            score(r, f) == IF f \in DOMAIN r THEN r[f] ELSE 0
            gap(r) == IF score(r, "buyScore") >= score(r, "sellScore")
                      THEN score(r, "buyScore") - score(r, "sellScore")
                      ELSE score(r, "sellScore") - score(r, "buyScore")
            close == {k \in found : gap(arg[k]) < 3}
            n == Cardinality(found)
            c == Cardinality(close)
        IN  /\ ret.num * n = 100 * c * ret.den
            /\ ret.den > 0 /\ 0 <= ret.num /\ ret.num <= 100 * ret.den
            /\ (c = 0 => ret = [num |-> 0, den |-> 1])
            /\ (c = n => ret = [num |-> 100, den |-> 1])
            /\ ret = calculateMarketNoise([k \in found |-> arg[k]])

\* C8 witness: two found entries, one with a gap of exactly 0.3 and one with a
\* missing score and a gap below 0.3, beside the result 50
NoiseShareWitness ==
    /\ ret = [num |-> 50, den |-> 1]
    /\ arg # Null
    /\ \E k, m \in DOMAIN arg :
          /\ k # m /\ arg[k].found /\ arg[m].found
          /\ DOMAIN arg[k] = {"found", "buyScore", "sellScore"}
          /\ arg[k].buyScore - arg[k].sellScore = 3
          /\ DOMAIN arg[m] = {"found", "sellScore"}
          /\ arg[m].sellScore = 2

----------------------------------------------------------------------------
(* Claim about the toast selection, under SpecPresent *)

\* C9: the severity of the toast is decided by the action and timing.enter_now
\* alone: WAIT gives a warning for every confidence and either enter_now, BUY
\* or SELL gives a success when enter_now holds and an info when it does not.
SeverityByActionAndTiming ==
    ret # Null =>
        LET action == arg.decision.action
            now == arg.decision.timing.enter_now
        IN  /\ ret.severity \in {"success", "info", "warning"}
            /\ (action = "WAIT" => ret.severity = "warning")
            /\ (action \in {"BUY", "SELL"} /\ now => ret.severity = "success")
            /\ (action \in {"BUY", "SELL"} /\ ~now => ret.severity = "info")

\* C9 witness: a WAIT decision of confidence 100 with enter_now set has been
\* presented as a warning
SeverityWitness ==
    /\ ret # Null
    /\ arg.decision.action = "WAIT"
    /\ arg.decision.confidence = 100
    /\ arg.decision.timing.enter_now
    /\ ret.severity = "warning"

----------------------------------------------------------------------------
(* Claims about the effect and the callback, under Spec *)

\* C1: an update whose detailedResults is absent or empty, or whose
\* enhancedAnalysisResult is absent or has no microPatterns, runs no pipeline:
\* nothing is scheduled, no call is made, no toast is delivered, isProcessing
\* and aiDecision keep their values; until an update passes the gate
\* isProcessing is false.
GatedUpdateIsIdle ==
    /\ [](qualified = 0 => (~isProcessing /\ cycles = <<>> /\ aiDecision = Null))
    /\ [][(/\ updates' = updates + 1
           /\ \/ detailedResults' = Null
              \/ DOMAIN detailedResults' = {}
              \/ enhancedAnalysisResult' = Null
              \/ "microPatterns" \notin DOMAIN enhancedAnalysisResult')
          => (/\ cycles' = cycles
              /\ isProcessing' = isProcessing
              /\ aiDecision' = aiDecision)]_vars

\* C1 witness: after a cycle was scheduled, an update with an empty
\* detailedResults has been gated out
GatedWitness ==
    /\ updates = 2 /\ qualified = 1 /\ Len(cycles) = 1
    /\ DOMAIN detailedResults = {}
    /\ enhancedAnalysisResult # Null
    /\ "microPatterns" \in DOMAIN enhancedAnalysisResult
    /\ isProcessing

\* C2: when makeAutonomousDecision raises, aiDecision is after the cycle what it
\* was before it, isProcessing ends false, and the cycle calls neither
\* evaluateSignalRisk nor performBacktest.
DecisionFailureKeepsState ==
    [][\A c \in 1..Len(cycles) :
          (cycles[c].pc = "scheduled" /\ cycles'[c].raised = "decision")
          => (/\ aiDecision' = aiDecision
              /\ isProcessing' = FALSE
              /\ cycles'[c].pc = "done"
              /\ cycles'[c].riskCalls = <<>>
              /\ cycles'[c].backtestCalls = <<>>)]_vars

\* C2 witness: the second cycle's decision call raised while the decision of
\* the first is stored
DecisionFailureWitness ==
    /\ Len(cycles) = 2
    /\ cycles[1].pc = "done" /\ cycles[1].raised = "none"
    /\ cycles[2].pc = "done" /\ cycles[2].raised = "decision"
    /\ Len(cycles[2].decisionCalls) = 1
    /\ aiDecision = cycles[1].decision
    /\ aiDecision # Null
    /\ ~isProcessing

\* C3: when evaluateSignalRisk or performBacktest raises or rejects, aiDecision
\* is after the cycle what it was before the cycle fired.
EnrichmentFailureKeepsDecision ==
    \A c \in 1..Len(cycles) :
        (/\ cycles[c].pc = "done"
         /\ cycles[c].raised \in {"risk", "backtest"}
         /\ \A b \in (c + 1)..Len(cycles) : cycles[b].pc = "scheduled")
        => aiDecision = cycles[c].before

\* C4: a cycle delivers one toast and no more: none before its callback has run
\* to its end, then exactly one, a success, info or warning toast if no step
\* raised and the error toast if the decision function or an enrichment call
\* raised.
OneToastPerCycle ==
    \A c \in 1..Len(cycles) :
        LET cy == cycles[c]
        IN  /\ Len(cy.toasts) <= 1
            /\ (cy.pc # "done" => cy.toasts = <<>>)
            /\ (cy.pc = "done" =>
                  /\ Len(cy.toasts) = 1
                  /\ (cy.raised = "none" =>
                        cy.toasts[1].severity \in {"success", "info", "warning"})
                  /\ (cy.raised # "none" => cy.toasts[1].severity = "error"))

\* C4 witness: one cycle has ended with the error toast after its backtest was
\* rejected, another with a success toast
OneToastWitness ==
    /\ Len(cycles) = 2
    /\ cycles[1].pc = "done" /\ cycles[1].raised = "backtest"
    /\ cycles[1].toasts = <<ErrorToast>>
    /\ cycles[2].pc = "done" /\ cycles[2].raised = "none"
    /\ Len(cycles[2].toasts) = 1
    /\ cycles[2].toasts[1].severity = "success"

\* C5 as claimed: every cycle that has fired has called performBacktest exactly
\* once, with one entry per element, when fastAnalysisResults has more than 5
\* elements, and not at all when it has 5 or fewer.
BacktestInEveryCycle ==
    \A c \in 1..Len(cycles) :
        LET cy == cycles[c]
        IN  cy.pc # "scheduled" =>
              IF Len(cy.fastAnalysisResults) > 5
              THEN /\ Len(cy.backtestCalls) = 1
                   /\ Len(cy.backtestCalls[1]) = Len(cy.fastAnalysisResults)
              ELSE cy.backtestCalls = <<>>

\* C5 as amended: every cycle in which the decision function returned and
\* evaluateSignalRisk, if called, returned has called performBacktest exactly
\* once, with one mapped entry per element of fastAnalysisResults, when that
\* has more than 5 elements, and not at all when it has 5 or fewer; a cycle in
\* which one of the two raised has not called it.
BacktestWhenReached ==
    \A c \in 1..Len(cycles) :
        LET cy == cycles[c]
            fast == cy.fastAnalysisResults
        IN  cy.pc # "scheduled" =>
              IF cy.raised \in {"decision", "risk"}
              THEN cy.backtestCalls = <<>>
              ELSE IF Len(fast) > 5
              THEN /\ Len(cy.backtestCalls) = 1
                   /\ Len(cy.backtestCalls[1]) = Len(fast)
                   /\ \A i \in 1..Len(fast) :
                         /\ cy.backtestCalls[1][i].confidence = fast[i].confidence
                         /\ cy.backtestCalls[1][i].action =
                               (IF fast[i].direction = "up" THEN "BUY"
                                ELSE IF fast[i].direction = "down" THEN "SELL"
                                ELSE "WAIT")
                         /\ cy.backtestCalls[1][i].confluences = 2
                         /\ cy.backtestCalls[1][i].timeframe = cy.selectedTimeframe
              ELSE cy.backtestCalls = <<>>

\* C5 witness: a cycle of 6 results has called performBacktest with 6 entries
\* and a cycle of 5 results has ended without calling it
BacktestWitness ==
    /\ Len(cycles) = 2
    /\ Len(cycles[1].fastAnalysisResults) = 6
    /\ Len(cycles[1].backtestCalls) = 1
    /\ Len(cycles[1].backtestCalls[1]) = 6
    /\ Len(cycles[2].fastAnalysisResults) = 5
    /\ cycles[2].pc = "done" /\ cycles[2].raised = "none"
    /\ cycles[2].backtestCalls = <<>>

\* C6: a cycle whose decision call returned has called evaluateSignalRisk
\* exactly once if the action is BUY or SELL and not at all if it is WAIT, and
\* aiDecision is the same right before and right after that call.
RiskCalledOncePerSignal ==
    \A c \in 1..Len(cycles) :
        LET cy == cycles[c]
        IN  /\ cy.decision # Null =>
                /\ (cy.decision.action \in {"BUY", "SELL"} => Len(cy.riskCalls) = 1)
                /\ (cy.decision.action = "WAIT" => cy.riskCalls = <<>>)
            /\ cy.decision = Null => cy.riskCalls = <<>>
            /\ \A i \in 1..Len(cy.riskCalls) :
                  /\ cy.riskCalls[i].storedBefore = cy.decision
                  /\ cy.riskCalls[i].storedAfter = cy.riskCalls[i].storedBefore

\* C6 witness: a SELL cycle has called evaluateSignalRisk once and ended, a
\* WAIT cycle has ended without calling it
RiskCallWitness ==
    /\ Len(cycles) = 2
    /\ cycles[1].pc = "done" /\ cycles[1].raised = "none"
    /\ cycles[1].decision # Null /\ cycles[1].decision.action = "SELL"
    /\ Len(cycles[1].riskCalls) = 1
    /\ cycles[1].riskCalls[1].request.stop_loss = 102
    /\ cycles[2].pc = "done" /\ cycles[2].raised = "none"
    /\ cycles[2].decision # Null /\ cycles[2].decision.action = "WAIT"
    /\ cycles[2].riskCalls = <<>>

----------------------------------------------------------------------------
(* Claim about scheduling, under FairSpec *)

\* C10: every update that passes the gate schedules a computation of its own,
\* no later update cancels or changes a computation that is pending, the
\* computation eventually fires and calls makeAutonomousDecision exactly once,
\* and a failed cycle is not run again: there is one cycle per qualifying
\* update and one decision call per cycle that has fired.
OneDecisionCallPerUpdate ==
    /\ [](/\ Len(cycles) = qualified
          /\ \A c \in 1..Len(cycles) :
                Len(cycles[c].decisionCalls)
                    = (IF cycles[c].pc = "scheduled" THEN 0 ELSE 1))
    /\ [][/\ Len(cycles') >= Len(cycles)
          /\ qualified' = qualified + 1 => Len(cycles') = Len(cycles) + 1
          /\ \A c \in 1..Len(cycles) :
                /\ updates' # updates => cycles'[c] = cycles[c]
                /\ cycles[c].pc # "scheduled" =>
                      cycles'[c].decisionCalls = cycles[c].decisionCalls]_vars
    /\ \A c \in 1..MaxUpdates :
          (Len(cycles) >= c) ~> (Len(cycles) >= c /\ Len(cycles[c].decisionCalls) = 1)

\* C10 witness: two updates passed the gate while the first computation was
\* pending, both computations have fired, the first one failed, and there are
\* two decision calls
OneDecisionCallWitness ==
    /\ qualified = 2 /\ Len(cycles) = 2
    /\ cycles[1].raised = "decision" /\ cycles[1].pc = "done"
    /\ cycles[2].pc = "done"
    /\ Len(cycles[1].decisionCalls) = 1 /\ Len(cycles[2].decisionCalls) = 1
    /\ cycles[2].before = Null

----------------------------------------------------------------------------
(* Claims about overlapping cycles, under Spec *)

\* C11: isProcessing is true whenever a pipeline is in flight, that is, a
\* computation is scheduled and has not fired or is awaiting its backtest:
\* when isProcessing is false every cycle has ended.
ProcessingWhileInFlight ==
    ~isProcessing => \A c \in 1..Len(cycles) : cycles[c].pc = "done"

LastScheduledDecisionStored ==
    /\ \A b \in 1..Len(cycles) : \A c \in 1..(b - 1) :
          cycles[b].pc # "scheduled" => cycles[c].pc # "scheduled"
    /\ \A c \in 1..Len(cycles) :
          cycles[c].pc = "awaiting" => cycles[c].decision # Null
    /\ LET wrote == {c \in 1..Len(cycles) : cycles[c].decision # Null}
       IN  IF wrote = {}
           THEN aiDecision = Null
           ELSE \E c \in wrote :
                   /\ \A b \in wrote : b <= c
                   /\ aiDecision = cycles[c].decision

\* C13 witness: both cycles have settled, the first through its backtest, the
\* second without one and with another decision, and the second one's decision
\* is stored
LastScheduledWitness ==
    /\ Len(cycles) = 2
    /\ cycles[1].pc = "done" /\ Len(cycles[1].backtestCalls) = 1
    /\ cycles[1].raised = "none"
    /\ cycles[2].pc = "done" /\ cycles[2].backtestCalls = <<>>
    /\ cycles[2].decision # Null
    /\ cycles[1].decision # cycles[2].decision
    /\ aiDecision = cycles[2].decision

----------------------------------------------------------------------------
(* Claims about the order of the steps of a cycle, under Spec *)

----------------------------------------------------------------------------
(* Claim about termination, under SettlingSpec *)

\* C15: once the updates have stopped, with every collaborator call returning
\* or raising, every scheduled cycle eventually settles, and then isProcessing
\* is false and stays false: whenever all cycles have settled isProcessing is
\* false, and eventually all cycles have settled for good.
EventuallyIdle ==
    /\ []((\A c \in 1..Len(cycles) : cycles[c].pc = "done") => ~isProcessing)
    /\ <>[](/\ \A c \in 1..Len(cycles) : cycles[c].pc = "done"
            /\ ~isProcessing)

\* C15 witness: two overlapping cycles have settled, one of them in the catch
\* after its backtest was rejected, and isProcessing is false
IdleWitness ==
    /\ updates = 2 /\ Len(cycles) = 2
    /\ cycles[1].pc = "done" /\ cycles[1].raised = "backtest"
    /\ cycles[2].pc = "done" /\ cycles[2].raised = "none"
    /\ Len(cycles[2].backtestCalls) = 1
    /\ ~isProcessing

----------------------------------------------------------------------------
(* Claim about teardown, under TeardownSpec *)

\* C16: a computation that is pending when the owner is torn down is dropped:
\* after teardown no step calls the decision function or a collaborator,
\* delivers a toast, or writes aiDecision or isProcessing.
NothingRunsAfterTeardown ==
    [][~mounted => (/\ cycles' = cycles
                    /\ aiDecision' = aiDecision
                    /\ isProcessing' = isProcessing)]_vars

----------------------------------------------------------------------------
(* Claim about the order of the last two steps of a cycle, under Spec *)

\* C17: in a cycle in which no step raises, and which no other cycle overlaps,
\* the toast of the decision is delivered before isProcessing is set to false:
\* the flag is still true when the toast is delivered.
ToastWhileProcessing ==
    (/\ Len(cycles) = 1
     /\ cycles[1].pc = "done"
     /\ cycles[1].raised = "none") => cycles[1].processingAtToast = [value |-> TRUE]

----------------------------------------------------------------------------
(* Claim about the factors, under SpecFactors *)

\* C18: market_conditions.volatility is visualAnalysis.priceAction.volatility
\* whenever that field is present, the value 0 included, and 50 only when it
\* is missing; likewise trend_strength and visualAnalysis.trendStrength.
PresentReadingIsKept ==
    ret # Null =>
        LET visual == Field(arg.enhanced, "visualAnalysis")
            price == Field(visual, "priceAction")
        IN  /\ ret.market_conditions.volatility =
                   IF Has(price, "volatility") THEN price.volatility ELSE 50
            /\ ret.market_conditions.trend_strength =
                   IF Has(visual, "trendStrength") THEN visual.trendStrength ELSE 50

----------------------------------------------------------------------------
(* Claim about the values a cycle works with, under ContextSpec *)

Captured(cy) ==
    <<cy.factors, cy.selectedTimeframe, cy.marketType, cy.fastAnalysisResults,
      cy.currentRisk, cy.positionSizing>>

\* every call and toast of the cycle is made of the values the cycle captured
UsesCaptured(cy) ==
    /\ \A i \in 1..Len(cy.decisionCalls) :
          cy.decisionCalls[i] = [factors |-> cy.factors,
                                 timeframe |-> cy.selectedTimeframe,
                                 marketType |-> cy.marketType]
    /\ \A i \in 1..Len(cy.riskCalls) :
          /\ cy.riskCalls[i].request.timeframe = cy.selectedTimeframe
          /\ cy.riskCalls[i].request.volatility = cy.factors.market_conditions.volatility
    /\ \A i \in 1..Len(cy.backtestCalls) :
          /\ Len(cy.backtestCalls[i]) = Len(cy.fastAnalysisResults)
          /\ \A j \in 1..Len(cy.backtestCalls[i]) :
                /\ cy.backtestCalls[i][j].timeframe = cy.selectedTimeframe
                /\ cy.backtestCalls[i][j].confidence = cy.fastAnalysisResults[j].confidence
    /\ \A i \in 1..Len(cy.toasts) :
          LET t == cy.toasts[i]
          IN  /\ t.severity \in {"success", "info"} =>
                    t.description.riskInfo =
                        IF cy.currentRisk = Null THEN [text |-> ""]
                        ELSE [text |-> " | Risco: ", value |-> cy.currentRisk.totalRisk]
              /\ t.severity = "success" =>
                    t.description.positionInfo =
                        IF cy.positionSizing = Null THEN [text |-> ""]
                        ELSE [text |-> " | Size: ",
                              value |-> cy.positionSizing.recommendedSize]

\* the captured values are those of the render that scheduled the cycle, and
\* no later step changes them
CapturedAtScheduling ==
    /\ \A c \in 1..Len(cycles) : Captured(cycles'[c]) = Captured(cycles[c])
    /\ Len(cycles') > Len(cycles) =>
          Captured(cycles'[Len(cycles')]) =
              <<BuildFactors(detailedResults', enhancedAnalysisResult'),
                selectedTimeframe', marketType', fastAnalysisResults',
                currentRisk, positionSizing>>

\* C19: the factors, timeframe, market type, fast results and risk context a
\* cycle uses are the values of the render that scheduled it: its decision
\* input, its collaborator calls and the risk and size text of its toast do
\* not follow a change of the props, the context or the collaborator state
\* made during the delay or the await.
CycleUsesSnapshot ==
    /\ [](\A c \in 1..Len(cycles) : UsesCaptured(cycles[c]))
    /\ [][CapturedAtScheduling]_vars

\* a cycle has delivered its toast with the risk text of its scheduling while
\* the timeframe and the collaborator state have since changed
SnapshotWitness ==
    /\ Len(cycles) = 1
    /\ cycles[1].pc = "done" /\ cycles[1].raised = "none"
    /\ cycles[1].toasts[1].severity = "success"
    /\ cycles[1].currentRisk = Null /\ currentRisk # Null
    /\ cycles[1].positionSizing = Null /\ positionSizing # Null
    /\ cycles[1].selectedTimeframe # selectedTimeframe
    /\ cycles[1].marketType # marketType
    /\ Len(cycles[1].riskCalls) = 1 /\ Len(cycles[1].backtestCalls) = 1
    /\ cycles[1].toasts[1].description.riskInfo = [text |-> ""]

====
